---- MODULE Spec2Model ----
(***************************************************************************)
(* Model of main.py: the REPL of main() and the turn handler               *)
(* handle_user_message(), together with the agent run they drive.          *)
(*                                                                         *)
(* Strings are sequences of one-character strings.  The console output of  *)
(* main() is the sequence `console'; the console output of the current     *)
(* invocation of handle_user_message() is the sequence `transcript'.       *)
(***************************************************************************)
EXTENDS Integers, Sequences, FiniteSets, TLC

\* ---------------------------------------------------------------- bounds
\* number of input() calls of one session
MaxReads == 2
\* number of events one agent run emits
MaxEvents == 2

\* ------------------------------------------------------- program constants
\* len(tool_output_str) > 250, tool_output_str[:250]
TruncLimit == 250

\* ------------------------------------------------------------ strings
UpperLetters == <<"A","B","C","D","E","F","G","H","I","J","K","L","M",
                  "N","O","P","Q","R","S","T","U","V","W","X","Y","Z">>
LowerLetters == <<"a","b","c","d","e","f","g","h","i","j","k","l","m",
                  "n","o","p","q","r","s","t","u","v","w","x","y","z">>

\* str.lower() on one character
LowerChar(c) ==
    IF \E i \in DOMAIN UpperLetters : UpperLetters[i] = c
    THEN LowerLetters[CHOOSE i \in DOMAIN UpperLetters : UpperLetters[i] = c]
    ELSE c

\* user_msg.lower()
Lower(s) == [i \in DOMAIN s |-> LowerChar(s[i])]

\* the set literal {"exit", "quit"}
ExitWords == { <<"e","x","i","t">>, <<"q","u","i","t">> }

\* the lines input() can return
Lines == { <<"e","x","i","t">>, <<"E","X","I","T">>, <<"Q","u","i","T">>,
           <<"q","u","i","t">>, <<"e","x","i","t"," ">>, <<"h","i">> }

\* a string of n characters, distinct at neighbouring positions
Filler == <<"x","y","z">>
TextOfLen(n) == [i \in 1..n |-> Filler[(i % 3) + 1]]

\* str(obj) of a ToolOutput / the final agent output: its text content
PyStr(obj) == obj.content

\* ------------------------------------------------------------ exceptions
ExcClasses == {"Exception", "EOFError", "KeyboardInterrupt", "CancelledError"}
\* classes matched by `except Exception`
IsException(exc) == exc \in {"Exception", "EOFError"}
\* variant: the clause names EOFError only
IsExitSignal_EofOnly(exc) == exc = "EOFError"

\* classes matched by `except (EOFError, KeyboardInterrupt)`
IsExitSignal(exc) == exc \in {"EOFError", "KeyboardInterrupt"}
\* raised by input()
InputExc == {"EOFError", "KeyboardInterrupt"}
\* delivered from outside the turn, at one of its suspension points
AsyncExc == {"KeyboardInterrupt", "CancelledError"}
\* raised by the agent run
AgentExc == {"Exception", "EOFError"}

\* names bound at module level or in main() when the startup handler runs
BoundNames == {"asyncio", "dotenv", "llm", "SYSTEM_PROMPT",
               "handle_user_message", "build_agent", "main", "e"}

\* ------------------------------------------------------------ events
NoOutput == [content |-> <<>>, is_error |-> FALSE]
Event(t, name, kw, d, out) ==
    [type |-> t, tool_name |-> name, tool_kwargs |-> kw, delta |-> d,
     tool_output |-> out]

OutLens == {1, TruncLimit, TruncLimit + 1}
ToolOutputs == { [content |-> TextOfLen(n), is_error |-> FALSE] : n \in OutLens }

Events ==
    { Event("ToolCall", "browse", <<"u","r","l">>, <<>>, NoOutput) }
    \cup { Event("AgentStream", "", <<>>, d, NoOutput) :
              d \in { <<"H","i">>, <<"!">> } }
    \cup { Event("ToolCallResult", "browse", <<>>, <<>>, o) : o \in ToolOutputs }
    \cup { Event("AgentOutput", "", <<>>, <<>>, NoOutput) }

\* the final assistant messages an agent run can resolve to
TurnResults == { [content |-> <<"o","k">>, is_error |-> FALSE],
                 [content |-> <<>>, is_error |-> FALSE] }

\* ------------------------------------------------------------ state
VARIABLES
    pc,            \* position of main()
    hpc,           \* position of handle_user_message()
    agentBuilt,    \* build_agent() has returned the agent
    ctxCreated,    \* number of Context(agent) constructions
    agent_context, \* the Context bound in main(), 0 when unbound
    console,       \* what main() and build_agent() have printed
    reads,         \* number of input() calls made
    user_msg,      \* the line bound by the last input()
    handlerCalls,  \* the calls of handle_user_message(), in order
    agentRuns,     \* the calls of agent.run(), in order
    agentState,    \* the workflow run behind the handler
    agentResult,   \* what the run resolved to
    agentExc,      \* what the run failed with
    stream,        \* the events the run has emitted, in emission order
    consumed,      \* how many of them the async for has taken
    transcript,    \* what handle_user_message() has printed in this call
    verbose,       \* the verbose argument of the current call
    replies,       \* the strings handle_user_message() has returned
    failedTurns,   \* the turns an exception escaped from
    turnExc,       \* the exception that escaped from the last failed turn
    lastRead,      \* how the last input() ended: "line" or what it raised
    bootExc,       \* what build_agent() raised, "none" otherwise
    escaped        \* the exception that left main(), "none" otherwise

vars == <<pc, hpc, agentBuilt, ctxCreated, agent_context, console, reads,
          user_msg, handlerCalls, agentRuns, agentState, agentResult,
          agentExc, stream, consumed, transcript, verbose, replies,
          failedTurns, turnExc, lastRead, bootExc, escaped>>

mainVars == <<pc, agentBuilt, ctxCreated, agent_context, console, reads,
              user_msg, handlerCalls, lastRead, bootExc, escaped>>
turnVars == <<hpc, agentRuns, agentState, agentResult, agentExc, stream,
              consumed, transcript, verbose, replies, failedTurns, turnExc>>

Out(k, d) == [k |-> k, detail |-> d]

Init ==
    /\ pc = "boot"
    /\ hpc = "idle"
    /\ agentBuilt = FALSE
    /\ ctxCreated = 0
    /\ agent_context = 0
    /\ console = <<>>
    /\ reads = 0
    /\ user_msg = <<>>
    /\ handlerCalls = <<>>
    /\ agentRuns = <<>>
    /\ agentState = "idle"
    /\ agentResult = NoOutput
    /\ agentExc = "none"
    /\ stream = <<>>
    /\ consumed = 0
    /\ transcript = <<>>
    /\ verbose = FALSE
    /\ replies = <<>>
    /\ failedTurns = {}
    /\ turnExc = "none"
    /\ lastRead = "none"
    /\ bootExc = "none"
    /\ escaped = "none"

\* ------------------------------------------------------------ startup
\* build_agent() returns the agent
BuildAgentOk ==
    /\ pc = "boot"
    /\ agentBuilt' = TRUE
    /\ console' = console \o << Out("connecting", "none"), Out("fetched", "none") >>
    /\ pc' = "built"
    /\ UNCHANGED <<ctxCreated, agent_context, reads, user_msg, handlerCalls,
                   lastRead, bootExc, escaped>>
    /\ UNCHANGED turnVars

\* the three print() calls of the startup handler; the first one formats
\* the name mcp_server_url
StartupDiagnostic(exc) ==
    IF "mcp_server_url" \in BoundNames
    THEN /\ console' = console \o << Out("connecting", "none"),
                                    Out("startup_failed", "none"),
                                    Out("startup_hint", "none"),
                                    Out("startup_detail", exc) >>
         /\ pc' = "terminated"
         /\ escaped' = escaped
    ELSE /\ console' = Append(console, Out("connecting", "none"))
         /\ pc' = "crashed"
         /\ escaped' = "NameError"

\* build_agent() raises
BuildAgentFails(exc) ==
    /\ pc = "boot"
    /\ bootExc' = exc
    /\ IF IsException(exc)
       THEN StartupDiagnostic(exc)
       ELSE /\ console' = Append(console, Out("connecting", "none"))
            /\ pc' = "crashed"
            /\ escaped' = exc
    /\ UNCHANGED <<agentBuilt, ctxCreated, agent_context, reads, user_msg,
                   handlerCalls, lastRead>>
    /\ UNCHANGED turnVars

\* agent_context = Context(agent) and the two banner lines
CreateContext ==
    /\ pc = "built"
    /\ ctxCreated' = ctxCreated + 1
    /\ agent_context' = ctxCreated + 1
    /\ console' = console \o << Out("banner", "none"), Out("ready", "none") >>
    /\ pc' = "awaiting_input"
    /\ UNCHANGED <<agentBuilt, reads, user_msg, handlerCalls, lastRead,
                   bootExc, escaped>>
    /\ UNCHANGED turnVars

\* ------------------------------------------------------------ the REPL
\* variant: the handlers continue the loop instead of leaving it
MainExcept_Continue(exc) ==
    IF IsExitSignal(exc)
    THEN /\ console' = Append(console, Out("exiting", "none"))
         /\ pc' = "terminated"
         /\ escaped' = escaped
    ELSE IF IsException(exc)
    THEN /\ console' = Append(console, Out("error", exc))
         /\ pc' = "awaiting_input"
         /\ escaped' = escaped
    ELSE /\ console' = console
         /\ pc' = "crashed"
         /\ escaped' = exc

\* variant: the first handler leaves the loop without printing
MainExcept_Silent(exc) ==
    IF IsExitSignal(exc)
    THEN /\ console' = console
         /\ pc' = "terminated"
         /\ escaped' = escaped
    ELSE IF IsException(exc)
    THEN /\ console' = Append(console, Out("error", exc))
         /\ pc' = "terminated"
         /\ escaped' = escaped
    ELSE /\ console' = console
         /\ pc' = "crashed"
         /\ escaped' = exc

\* variant: only EOFError leaves quietly, everything else is reported
MainExcept_ErrorPath(exc) ==
    IF exc = "EOFError"
    THEN /\ console' = Append(console, Out("exiting", "none"))
         /\ pc' = "terminated"
         /\ escaped' = escaped
    ELSE /\ console' = Append(console, Out("error", exc))
         /\ pc' = "terminated"
         /\ escaped' = escaped

\* the except clauses of the loop body
MainExcept(exc) ==
    IF IsExitSignal(exc)
    THEN /\ console' = Append(console, Out("exiting", "none"))
         /\ pc' = "terminated"
         /\ escaped' = escaped
    ELSE IF IsException(exc)
    THEN /\ console' = Append(console, Out("error", exc))
         /\ pc' = "terminated"
         /\ escaped' = escaped
    ELSE /\ console' = console
         /\ pc' = "crashed"
         /\ escaped' = exc

\* variant: a new Context is made for every turn
ContextForTurn_Fresh == Len(handlerCalls) + 1

\* the context handed to handle_user_message()
ContextForTurn == agent_context

\* the call of handle_user_message() for an accepted line
StartTurn(line) ==
    /\ console' = Append(console, Out("agent_prefix", "none"))
    /\ handlerCalls' = Append(handlerCalls,
           [message_content |-> line, agent_context |-> ContextForTurn,
            verbose |-> TRUE])
    /\ verbose' = TRUE
    /\ pc' = "processing_turn"
    /\ hpc' = "run"
    /\ transcript' = <<>>
    /\ stream' = <<>>
    /\ consumed' = 0
    /\ agentState' = "idle"
    /\ agentResult' = NoOutput
    /\ agentExc' = "none"

\* variant: the line is compared without lower()
IsExitCommand_NoLower(line) == line \in ExitWords

\* user_msg.lower() in {"exit", "quit"}
IsExitCommand(line) == Lower(line) \in ExitWords

\* input() returns a line
ReadLine(line) ==
    /\ pc = "awaiting_input"
    /\ reads < MaxReads
    /\ reads' = reads + 1
    /\ user_msg' = line
    /\ lastRead' = "line"
    /\ IF IsExitCommand(line)
       THEN /\ pc' = "terminated"
            /\ UNCHANGED <<console, handlerCalls, verbose, hpc, transcript,
                           stream, consumed, agentState, agentResult, agentExc>>
       ELSE StartTurn(line)
    /\ UNCHANGED <<agentBuilt, ctxCreated, agent_context, bootExc, escaped,
                   agentRuns, replies, failedTurns, turnExc>>

\* input() raises
ReadRaises(exc) ==
    /\ pc = "awaiting_input"
    /\ reads < MaxReads
    /\ reads' = reads + 1
    /\ lastRead' = exc
    /\ MainExcept(exc)
    /\ UNCHANGED <<agentBuilt, ctxCreated, agent_context, user_msg,
                   handlerCalls, bootExc>>
    /\ UNCHANGED turnVars

\* ------------------------------------------------------------ the turn
\* handler = agent.run(message_content, ctx=agent_context)
AgentRun ==
    /\ pc = "processing_turn"
    /\ hpc = "run"
    /\ agentRuns' = Append(agentRuns,
           [turn |-> Len(handlerCalls),
            message_content |-> handlerCalls[Len(handlerCalls)].message_content,
            ctx |-> handlerCalls[Len(handlerCalls)].agent_context])
    /\ agentState' = "running"
    /\ hpc' = "stream"
    /\ UNCHANGED mainVars
    /\ UNCHANGED <<agentResult, agentExc, stream, consumed, transcript,
                   verbose, replies, failedTurns, turnExc>>

\* the run writes an event to its stream
AgentEmit(e) ==
    /\ pc = "processing_turn"
    /\ agentState = "running"
    /\ Len(stream) < MaxEvents
    /\ stream' = Append(stream, e)
    /\ UNCHANGED mainVars
    /\ UNCHANGED <<hpc, agentRuns, agentState, agentResult, agentExc,
                   consumed, transcript, verbose, replies, failedTurns, turnExc>>

\* the run resolves to its final message and closes the stream
AgentFinish(r) ==
    /\ pc = "processing_turn"
    /\ agentState = "running"
    /\ agentState' = "done"
    /\ agentResult' = r
    /\ UNCHANGED mainVars
    /\ UNCHANGED <<hpc, agentRuns, agentExc, stream, consumed, transcript,
                   verbose, replies, failedTurns, turnExc>>

\* the run fails
AgentFail(exc) ==
    /\ pc = "processing_turn"
    /\ agentState = "running"
    /\ agentState' = "failed"
    /\ agentExc' = exc
    /\ UNCHANGED mainVars
    /\ UNCHANGED <<hpc, agentRuns, agentResult, stream, consumed, transcript,
                   verbose, replies, failedTurns, turnExc>>

Line(kind, name, text, nl) ==
    [kind |-> kind, tool_name |-> name, text |-> text, nl |-> nl]

\* variant: the comparison is >= instead of >
Shorten_Ge(s) ==
    IF Len(s) >= TruncLimit
    THEN SubSeq(s, 1, TruncLimit) \o <<".", ".", ".">>
    ELSE s

\* the shortening of the tool output
Shorten(s) ==
    IF Len(s) > TruncLimit
    THEN SubSeq(s, 1, TruncLimit) \o <<".", ".", ".">>
    ELSE s

\* variant: the first if does not test verbose
PrintToolCall_Always(e, v) ==
    IF e.type = "ToolCall"
    THEN << Line("tool_call", e.tool_name, e.tool_kwargs, TRUE) >>
    ELSE << >>

\* the first if of the loop body
PrintToolCall(e, v) ==
    IF v /\ e.type = "ToolCall"
    THEN << Line("tool_call", e.tool_name, e.tool_kwargs, TRUE) >>
    ELSE << >>

\* variant: the elif tests for the wrong event class
PrintStreamOrResult_NoResult(e, v) ==
    IF e.type = "AgentStream"
    THEN << Line("delta", "", e.delta, FALSE) >>
    ELSE IF v /\ e.type = "ToolCall"
    THEN << Line("tool_result", e.tool_name, Shorten(PyStr(e.tool_output)), TRUE) >>
    ELSE << >>

\* the if / elif of the loop body
PrintStreamOrResult(e, v) ==
    IF e.type = "AgentStream"
    THEN << Line("delta", "", e.delta, FALSE) >>
    ELSE IF v /\ e.type = "ToolCallResult"
    THEN << Line("tool_result", e.tool_name, Shorten(PyStr(e.tool_output)), TRUE) >>
    ELSE << >>

\* the body of the async for, for one event
PrintEvent(e, v) == PrintToolCall(e, v) \o PrintStreamOrResult(e, v)

\* variant: the loop is left after the first event
AfterEvent_Break == "await"

\* variant: the utterance is submitted again after each event
AfterEvent_Rerun == "run"

\* the position of the handler after one event has been handled
AfterEvent == "stream"

\* the async for takes the next event and handles it
ConsumeEvent ==
    /\ pc = "processing_turn"
    /\ hpc = "stream"
    /\ consumed < Len(stream)
    /\ consumed' = consumed + 1
    /\ transcript' = transcript \o PrintEvent(stream[consumed + 1], verbose)
    /\ hpc' = AfterEvent
    /\ UNCHANGED mainVars
    /\ UNCHANGED <<agentRuns, agentState, agentResult, agentExc, stream,
                   verbose, replies, failedTurns, turnExc>>

\* the async for ends: the stream is closed and drained
StreamExhausted ==
    /\ pc = "processing_turn"
    /\ hpc = "stream"
    /\ agentState \in {"done", "failed"}
    /\ consumed = Len(stream)
    /\ hpc' = "await"
    /\ UNCHANGED mainVars
    /\ UNCHANGED <<agentRuns, agentState, agentResult, agentExc, stream,
                   consumed, transcript, verbose, replies, failedTurns, turnExc>>

\* the position of main() after a turn that returned
AfterTurn == "awaiting_input"

\* answer = await handler; return str(answer); main() prints the separator
AwaitResult ==
    /\ pc = "processing_turn"
    /\ hpc = "await"
    /\ agentState = "done"
    /\ replies' = Append(replies,
           [turn |-> Len(handlerCalls), text |-> PyStr(agentResult)])
    /\ console' = Append(console, Out("separator", "none"))
    /\ hpc' = "idle"
    /\ pc' = AfterTurn
    /\ UNCHANGED <<agentBuilt, ctxCreated, agent_context, reads, user_msg,
                   handlerCalls, lastRead, bootExc, escaped>>
    /\ UNCHANGED <<agentRuns, agentState, agentResult, agentExc, stream,
                   consumed, transcript, verbose, failedTurns, turnExc>>

\* variant: the handler catches the failure and raises a generic one instead
Propagated_Wrapped(exc) == "Exception"

\* what the caller of handle_user_message() sees of an exception raised in
\* its body: the body has no try statement
Propagated(exc) == exc

\* an exception leaves handle_user_message(): the failure of the run, at the
\* end of the stream or at the await, or one delivered from outside while the
\* handler is suspended in the async for or in the await
TurnRaises(exc) ==
    /\ pc = "processing_turn"
    /\ \/ /\ hpc \in {"stream", "await"}
          /\ agentState = "failed"
          /\ consumed = Len(stream)
          /\ exc = agentExc
       \/ /\ hpc \in {"stream", "await"}
          /\ exc \in AsyncExc
    /\ failedTurns' = failedTurns \cup {Len(handlerCalls)}
    /\ turnExc' = Propagated(exc)
    /\ hpc' = "idle"
    /\ MainExcept(Propagated(exc))
    /\ UNCHANGED <<agentBuilt, ctxCreated, agent_context, reads, user_msg,
                   handlerCalls, lastRead, bootExc>>
    /\ UNCHANGED <<agentRuns, agentState, agentResult, agentExc, stream,
                   consumed, transcript, verbose, replies>>

Next ==
    \/ BuildAgentOk
    \/ \E exc \in ExcClasses : BuildAgentFails(exc)
    \/ CreateContext
    \/ \E line \in Lines : ReadLine(line)
    \/ \E exc \in InputExc : ReadRaises(exc)
    \/ AgentRun
    \/ \E e \in Events : AgentEmit(e)
    \/ \E r \in TurnResults : AgentFinish(r)
    \/ \E exc \in AgentExc : AgentFail(exc)
    \/ ConsumeEvent
    \/ StreamExhausted
    \/ AwaitResult
    \/ \E exc \in ExcClasses : TurnRaises(exc)

Spec == Init /\ [][Next]_vars

\* ------------------------------------------------- the handler on its own
\* handle_user_message(line, agent, agent_context, verbose) entered by a
\* caller that passes either value of verbose (the parameter defaults to
\* False; main() passes True)
HandlerInit ==
    /\ pc = "processing_turn"
    /\ hpc = "run"
    /\ agentBuilt = TRUE
    /\ ctxCreated = 1
    /\ agent_context = 1
    /\ console = << Out("connecting", "none"), Out("fetched", "none"),
                    Out("banner", "none"), Out("ready", "none"),
                    Out("agent_prefix", "none") >>
    /\ reads = 1
    /\ lastRead = "line"
    /\ \E line \in { l \in Lines : ~IsExitCommand(l) }, v \in BOOLEAN :
          /\ user_msg = line
          /\ verbose = v
          /\ handlerCalls = << [message_content |-> line, agent_context |-> 1,
                                verbose |-> v] >>
    /\ agentRuns = <<>>
    /\ agentState = "idle"
    /\ agentResult = NoOutput
    /\ agentExc = "none"
    /\ stream = <<>>
    /\ consumed = 0
    /\ transcript = <<>>
    /\ replies = <<>>
    /\ failedTurns = {}
    /\ turnExc = "none"
    /\ bootExc = "none"
    /\ escaped = "none"

HandlerNext ==
    \/ AgentRun
    \/ \E e \in Events : AgentEmit(e)
    \/ \E r \in TurnResults : AgentFinish(r)
    \/ \E exc \in AgentExc : AgentFail(exc)
    \/ ConsumeEvent
    \/ StreamExhausted
    \/ AwaitResult
    \/ \E exc \in ExcClasses : TurnRaises(exc)

HandlerSpec == HandlerInit /\ [][HandlerNext]_vars

TypeOK ==
    /\ pc \in {"boot", "built", "awaiting_input", "processing_turn",
               "terminated", "crashed"}
    /\ hpc \in {"idle", "run", "stream", "await"}
    /\ reads \in 0..MaxReads
    /\ consumed \in 0..Len(stream)
    /\ Len(stream) <= MaxEvents

\* ------------------------------------------------------------ properties
\* the replies returned for turn t
RepliesOf(t) == { i \in DOMAIN replies : replies[i].turn = t }
\* turn t is over
TurnOver(t) == t < Len(handlerCalls) \/ pc # "processing_turn"
\* the current turn has returned its result
Returned == handlerCalls # <<>> /\ RepliesOf(Len(handlerCalls)) # {}

IsProgressEvent(e) == e.type \in {"ToolCall", "AgentStream", "ToolCallResult"}
\* the Progress Events among the events consumed so far
ConsumedProgress == SelectSeq(SubSeq(stream, 1, consumed), IsProgressEvent)

\* C1: a turn that does not fail returns exactly one Turn Result, no turn
\* returns more than one, and once the result of a turn has been returned
\* every event the agent emitted for it has been consumed and the run has
\* resolved: no event of the turn is left or arrives after the result.
C1_OneResultAfterAllEvents ==
    /\ \A t \in 1..Len(handlerCalls) :
          /\ Cardinality(RepliesOf(t)) <= 1
          /\ (TurnOver(t) /\ t \notin failedTurns) => Cardinality(RepliesOf(t)) = 1
          /\ t \in failedTurns => RepliesOf(t) = {}
    /\ Returned => /\ consumed = Len(stream)
                   /\ agentState = "done"
                   /\ hpc = "idle"

C1_Witness ==
    /\ Returned
    /\ consumed >= 2
    /\ pc = "awaiting_input"

\* the transcript entry that the event e stands for
EntryFor(entry, e) ==
    \/ /\ e.type = "ToolCall"
       /\ entry.kind = "tool_call"
       /\ entry.tool_name = e.tool_name
       /\ entry.text = e.tool_kwargs
    \/ /\ e.type = "AgentStream"
       /\ entry.kind = "delta"
       /\ entry.text = e.delta
    \/ /\ e.type = "ToolCallResult"
       /\ entry.kind = "tool_result"
       /\ entry.tool_name = e.tool_name

\* C2: with verbosity enabled the transcript of a turn has one entry per
\* Progress Event consumed, in emission order (none reordered, dropped or
\* duplicated), and the string returned is the string form of the Turn
\* Result the run resolved to.
C2_TranscriptInEmissionOrder ==
    /\ (handlerCalls # <<>> /\ verbose) =>
          /\ Len(transcript) = Len(ConsumedProgress)
          /\ \A i \in DOMAIN transcript : EntryFor(transcript[i], ConsumedProgress[i])
    /\ Returned =>
          /\ ConsumedProgress = SelectSeq(stream, IsProgressEvent)
          /\ \A i \in RepliesOf(Len(handlerCalls)) :
                replies[i].text = agentResult.content

C2_Witness ==
    /\ Returned
    /\ verbose
    /\ Len(transcript) = 2
    /\ transcript[1].kind = "tool_call"
    /\ transcript[2].kind = "tool_result"
    /\ replies[Len(replies)].text = <<"o", "k">>

\* C3: a Tool-Call Result whose output has at most 250 characters is printed
\* unmodified, without marker; one with more than 250 characters is printed
\* as its first 250 characters followed by "...".
C3_TruncationAt250 ==
    (handlerCalls # <<>> /\ verbose) =>
        \A i \in DOMAIN transcript :
            (i \in DOMAIN ConsumedProgress
             /\ ConsumedProgress[i].type = "ToolCallResult") =>
                LET out == ConsumedProgress[i].tool_output.content
                    text == transcript[i].text
                IN  /\ transcript[i].kind = "tool_result"
                    /\ Len(out) <= 250 => text = out
                    /\ Len(out) > 250 =>
                          /\ Len(text) = 253
                          /\ SubSeq(text, 1, 250) = SubSeq(out, 1, 250)
                          /\ SubSeq(text, 251, 253) = <<".", ".", ".">>

C3_Witness ==
    /\ verbose
    /\ Len(transcript) = 2
    /\ consumed = 2
    /\ stream[1].type = "ToolCallResult"
    /\ stream[2].type = "ToolCallResult"
    /\ Len(stream[1].tool_output.content) = 250
    /\ Len(transcript[1].text) = 250
    /\ Len(stream[2].tool_output.content) = 251
    /\ Len(transcript[2].text) = 253

\* the line equals the word up to letter case
UpperOf(c) ==
    IF \E i \in DOMAIN LowerLetters : LowerLetters[i] = c
    THEN UpperLetters[CHOOSE i \in DOMAIN LowerLetters : LowerLetters[i] = c]
    ELSE c
EqualsIgnoringCase(line, word) ==
    /\ Len(line) = Len(word)
    /\ \A i \in DOMAIN word : line[i] = word[i] \/ line[i] = UpperOf(word[i])
IsExitOrQuit(line) ==
    \/ EqualsIgnoringCase(line, <<"e","x","i","t">>)
    \/ EqualsIgnoringCase(line, <<"q","u","i","t">>)

\* main() has ended
Ended == pc \in {"terminated", "crashed"}
\* the last entry of the console
LastPrinted == console[Len(console)]

\* C4: when the line read at the prompt is "exit" or "quit" in any letter
\* case, the loop ends in that very step without a call of the Turn Handler
\* and without a submission to the agent; once the loop has ended no input
\* is read, no turn is started and the loop stays ended.
C4_ExitCommandTerminates ==
    [][ /\ (pc = "awaiting_input" /\ reads' = reads + 1 /\ lastRead' = "line"
            /\ IsExitOrQuit(user_msg'))
           => /\ pc' = "terminated"
              /\ handlerCalls' = handlerCalls
              /\ agentRuns' = agentRuns
              /\ hpc' = "idle"
        /\ Ended => /\ reads' = reads
                    /\ handlerCalls' = handlerCalls
                    /\ agentRuns' = agentRuns
                    /\ pc' = pc ]_vars

C4_Witness ==
    /\ pc = "terminated"
    /\ lastRead = "line"
    /\ user_msg = <<"Q","u","i","T">>
    /\ Len(handlerCalls) = reads - 1
    /\ Len(handlerCalls) >= 1

\* C5: after a startup failure (build_agent() raised an Exception) a
\* diagnostic has been printed, no input has been read, main() has returned
\* and no exception has left it.
C5_StartupFailureDiagnosed ==
    (bootExc # "none" /\ IsException(bootExc)) =>
        /\ pc = "terminated"
        /\ reads = 0
        /\ escaped = "none"
        /\ \E i \in DOMAIN console : console[i].k = "startup_failed"

\* C6: end-of-input or an interrupt at the prompt ends the loop in that very
\* step: the exit notice is printed, the Turn Handler is not called and
\* nothing is submitted for that read, no exception leaves main(), and no
\* further read follows.
C6_EofOrInterruptAtPrompt ==
    [][ /\ (pc = "awaiting_input" /\ reads' = reads + 1
            /\ lastRead' \in {"EOFError", "KeyboardInterrupt"})
           => /\ pc' = "terminated"
              /\ escaped' = "none"
              /\ handlerCalls' = handlerCalls
              /\ agentRuns' = agentRuns
              /\ hpc' = "idle"
        /\ (lastRead \in {"EOFError", "KeyboardInterrupt"})
           => /\ reads' = reads
              /\ pc' = "terminated"
              /\ escaped' = "none" ]_vars

C6_Witness ==
    /\ pc = "terminated"
    /\ lastRead = "KeyboardInterrupt"
    /\ escaped = "none"
    /\ Len(handlerCalls) >= 1
    /\ LastPrinted.k = "exiting"

\* what the session has to show once a turn has failed with exc: it is the
\* last turn, nothing was read after it, it was submitted once
FailedTurnIsLast ==
    /\ failedTurns = {Len(handlerCalls)}
    /\ reads = Len(handlerCalls)
    /\ Len(agentRuns) = Len(handlerCalls)
    /\ hpc = "idle"

\* C7 as stated: once an exception has escaped the Turn Handler the error
\* has been printed and the loop has terminated, with no further read and
\* no further turn.
C7_AnyTurnFailureIsReported ==
    failedTurns # {} =>
        /\ FailedTurnIsLast
        /\ pc = "terminated"
        /\ LastPrinted = Out("error", turnExc)

\* C7 as amended: a failed turn is the last one and is never retried, and no
\* line is read after it.  An exception of class Exception other than
\* EOFError has its error printed and ends the loop; EOFError and
\* KeyboardInterrupt end the loop with the exit notice instead of the error;
\* any other BaseException leaves main() unhandled with nothing printed.  A
\* turn that returns brings the loop back to awaiting-input.
C7_FailedTurnEndsSession ==
    /\ [](failedTurns # {} =>
            /\ FailedTurnIsLast
            /\ turnExc = "Exception" =>
                  /\ pc = "terminated"
                  /\ escaped = "none"
                  /\ LastPrinted = Out("error", turnExc)
            /\ turnExc \in {"EOFError", "KeyboardInterrupt"} =>
                  /\ pc = "terminated"
                  /\ escaped = "none"
                  /\ LastPrinted = Out("exiting", "none")
            /\ turnExc \notin {"Exception", "EOFError", "KeyboardInterrupt"} =>
                  /\ pc = "crashed"
                  /\ escaped = turnExc
                  /\ LastPrinted = Out("agent_prefix", "none"))
    /\ [][ /\ Len(replies') > Len(replies) => pc' = "awaiting_input"
           /\ failedTurns # {} => /\ pc' = pc
                                  /\ reads' = reads
                                  /\ handlerCalls' = handlerCalls
                                  /\ agentRuns' = agentRuns ]_vars

C7_Witness ==
    /\ failedTurns = {2}
    /\ turnExc = "Exception"
    /\ pc = "terminated"
    /\ Len(replies) = 1
    /\ transcript # <<>>

\* the route by which the loop terminated
ByTurnFailure == failedTurns # {}
ByInputSignal == failedTurns = {} /\ lastRead \in {"EOFError", "KeyboardInterrupt"}
ByExitCommand == failedTurns = {} /\ lastRead = "line"

\* C8 as stated: whenever the loop has terminated, the last thing printed
\* is a farewell/exit notice (the error report of a failed turn counted as
\* one).
C8_EveryRoutePrintsNotice ==
    (pc = "terminated" /\ reads > 0) => LastPrinted.k \in {"exiting", "error"}

\* C8 as amended: the end-of-input and interrupt routes print the exit
\* notice; the turn-failure route prints the error report, or the exit
\* notice when the failure is EOFError or KeyboardInterrupt; the exit/quit
\* route prints nothing after the line is read.
C8_NoticePerRoute ==
    (pc = "terminated" /\ reads > 0) =>
        /\ ByInputSignal => LastPrinted = Out("exiting", "none")
        /\ (ByTurnFailure /\ turnExc \in {"EOFError", "KeyboardInterrupt"})
              => LastPrinted = Out("exiting", "none")
        /\ (ByTurnFailure /\ turnExc \notin {"EOFError", "KeyboardInterrupt"})
              => LastPrinted = Out("error", turnExc)
        /\ ByExitCommand =>
              /\ IsExitOrQuit(user_msg)
              /\ LastPrinted.k \in {"ready", "separator"}
              /\ \A i \in DOMAIN console : console[i].k \notin {"exiting", "error"}

C8_Witness ==
    /\ pc = "terminated"
    /\ ByExitCommand
    /\ Len(replies) >= 1
    /\ LastPrinted.k = "separator"

\* C9: at most one Context is ever made; it is made after the agent has been
\* built and before the first read; from then on main() holds that instance,
\* and every call of the Turn Handler and every submission to the agent
\* carries it.
C9_OneConversationContext ==
    /\ ctxCreated <= 1
    /\ ctxCreated = 1 => agentBuilt
    /\ (reads > 0 \/ pc \in {"awaiting_input", "processing_turn"}) =>
          /\ ctxCreated = 1
          /\ agent_context = 1
    /\ ctxCreated = 0 => agent_context = 0 /\ handlerCalls = <<>>
    /\ \A i \in DOMAIN handlerCalls : handlerCalls[i].agent_context = agent_context
    /\ \A i \in DOMAIN agentRuns : agentRuns[i].ctx = agent_context

C9_Witness ==
    /\ Len(handlerCalls) = 2
    /\ Len(agentRuns) = 2
    /\ ctxCreated = 1

\* the submissions made for turn t
RunsOf(t) == { i \in DOMAIN agentRuns : agentRuns[i].turn = t }

\* C10: every accepted utterance is submitted to the agent exactly once, as
\* read (none before the handler reaches agent.run, one from then on, also
\* after the turn has returned or failed); a turn is in flight only while
\* main() is in processing-turn, and every turn before the current one has
\* returned its result or failed, so a line is read only then.
C10_SubmittedOnceOneTurnInFlight ==
    /\ \A t \in 1..Len(handlerCalls) :
          /\ Cardinality(RunsOf(t)) =
                (IF t = Len(handlerCalls) /\ hpc = "run" THEN 0 ELSE 1)
          /\ \A i \in RunsOf(t) :
                agentRuns[i].message_content = handlerCalls[t].message_content
          /\ TurnOver(t) => (RepliesOf(t) # {} \/ t \in failedTurns)
    /\ Len(agentRuns) <= Len(handlerCalls)
    /\ hpc # "idle" <=> pc = "processing_turn"
    /\ pc = "processing_turn" => reads = Len(handlerCalls)

C10_Witness ==
    /\ Len(handlerCalls) = 2
    /\ handlerCalls[1].message_content = handlerCalls[2].message_content
    /\ Len(agentRuns) = 2
    /\ Len(replies) = 2

\* C11: when an exception leaves the Turn Handler it is the one that was
\* raised (the failure of the run, or the exception delivered from outside);
\* in that step nothing more is consumed or printed, no result is returned
\* and the agent is not invoked again; afterwards the transcript printed
\* before the failure stays as it is, and the failed turn has no Turn Result
\* and exactly one submission.
C11_FailurePropagatesUnchanged ==
    /\ [](\A t \in failedTurns : RepliesOf(t) = {} /\ Cardinality(RunsOf(t)) = 1)
    /\ [][ /\ failedTurns' # failedTurns =>
                /\ \/ agentState = "failed" /\ turnExc' = agentExc
                   \/ turnExc' \in {"KeyboardInterrupt", "CancelledError"}
                /\ consumed' = consumed
                /\ transcript' = transcript
                /\ replies' = replies
                /\ agentRuns' = agentRuns
                /\ hpc' = "idle"
           /\ failedTurns # {} =>
                /\ consumed' = consumed
                /\ transcript' = transcript
                /\ replies' = replies
                /\ agentRuns' = agentRuns ]_vars

C11_Witness ==
    /\ failedTurns # {}
    /\ agentState = "failed"
    /\ agentExc = "EOFError"
    /\ turnExc = "EOFError"
    /\ Len(transcript) = 2
    /\ consumed = 2

\* the event shows on the console under the current verbosity
Shown(e) ==
    \/ e.type = "AgentStream"
    \/ verbose /\ e.type \in {"ToolCall", "ToolCallResult"}
\* the number of entries the first i events of the stream account for
EntriesUpTo(i) == Len(SelectSeq(SubSeq(stream, 1, i), Shown))
\* the concatenation of the fragments of the Output Deltas among the first
\* i events of the stream
RECURSIVE DeltasUpTo(_)
DeltasUpTo(i) ==
    IF i = 0 THEN <<>>
    ELSE DeltasUpTo(i - 1) \o
         (IF stream[i].type = "AgentStream" THEN stream[i].delta ELSE <<>>)
\* the characters the first n entries of the transcript put on the console
RECURSIVE Rendered(_)
Rendered(n) ==
    IF n = 0 THEN <<>>
    ELSE Rendered(n - 1) \o transcript[n].text \o
         (IF transcript[n].nl THEN <<"\n">> ELSE <<>>)

\* C12: for either value of verbose, the transcript has exactly one entry
\* per consumed event that shows (every Output Delta; Tool-Call Request and
\* Tool-Call Result only when verbose), in emission order; a delta entry is
\* the fragment itself without a newline, so the entries of two consecutive
\* deltas are adjacent; with verbose false the console output of the turn is
\* exactly the concatenation of the delta fragments.
C12_DeltasVerbatim ==
    /\ Len(transcript) = EntriesUpTo(consumed)
    /\ \A i \in 1..consumed :
          Shown(stream[i]) =>
              /\ EntryFor(transcript[EntriesUpTo(i)], stream[i])
              /\ stream[i].type = "AgentStream" =>
                    /\ transcript[EntriesUpTo(i)].text = stream[i].delta
                    /\ transcript[EntriesUpTo(i)].nl = FALSE
    /\ \A j \in DOMAIN transcript :
          transcript[j].kind \in {"tool_call", "tool_result"} => verbose
    /\ ~verbose => Rendered(Len(transcript)) = DeltasUpTo(consumed)

C12_Witness ==
    /\ ~verbose
    /\ Returned
    /\ consumed = 2
    /\ stream[1].type = "ToolCall"
    /\ stream[2].type = "AgentStream"
    /\ Rendered(Len(transcript)) = <<"H", "i">>

\* the turn in flight was ended by an interrupt
Interrupted == failedTurns # {} /\ turnExc \in {"KeyboardInterrupt", "CancelledError"}

\* C13 as stated: an interrupt during a turn takes the error path of any
\* other exception: the error is reported, the loop terminates, the turn
\* has no result and no further input is read.
C13_InterruptIsGenericFailure ==
    Interrupted =>
        /\ FailedTurnIsLast
        /\ RepliesOf(Len(handlerCalls)) = {}
        /\ pc = "terminated"
        /\ LastPrinted = Out("error", turnExc)

\* C13 as amended: an interrupt during a turn ends the session with no Turn
\* Result for the turn and no further input read, but not by the error
\* path: raised as KeyboardInterrupt it is caught by the clause that also
\* serves the prompt and the exit notice is printed; delivered as the
\* cancellation of the task it is caught by no clause and leaves main();
\* in neither case is an error report printed.
C13_InterruptEndsSessionQuietly ==
    Interrupted =>
        /\ FailedTurnIsLast
        /\ RepliesOf(Len(handlerCalls)) = {}
        /\ \A i \in DOMAIN console : console[i].k # "error"
        /\ turnExc = "KeyboardInterrupt" =>
              /\ pc = "terminated"
              /\ escaped = "none"
              /\ LastPrinted = Out("exiting", "none")
        /\ turnExc = "CancelledError" =>
              /\ pc = "crashed"
              /\ escaped = "CancelledError"
              /\ LastPrinted = Out("agent_prefix", "none")

C13_Witness ==
    /\ Interrupted
    /\ turnExc = "KeyboardInterrupt"
    /\ agentState = "running"
    /\ consumed = 1
    /\ Len(stream) = 2
    /\ transcript # <<>>
    /\ pc = "terminated"

====
